---- MODULE Spec2Model ----
(***************************************************************************)
(* Model of moto/cloudformation/models.py: the FakeStack lifecycle         *)
(* (construction, update, delete, event log) and the CloudFormationBackend *)
(* registry (stacks / deleted_stacks indexes and the calls over them).     *)
(*                                                                         *)
(* A FakeStack object is a record; the heap maps the stack id of every     *)
(* object a successful create_stack has registered to its current value,   *)
(* so the two indexes hold ids (their dictionary keys) and the objects     *)
(* they reference are read through the heap.  Each registry call is one    *)
(* atomic action (calls are serialized, spec section 5).  The external     *)
(* collaborators (yaml/json parsers, ResourceMap, OutputMap) are modelled  *)
(* by their outcomes: a parse result fixed by the template text and an     *)
(* environment choice of whether a resolver call raises.                   *)
(***************************************************************************)
EXTENDS Integers, Sequences, FiniteSets, TLC

(***************************************************************************)
(* Bounds of the model.                                                    *)
(***************************************************************************)
\* number of stacks a run registers
MaxStacks == 3
\* number of lifecycle transitions (create, update, delete of one stack) a run
\* starts
MaxCalls == 4

(***************************************************************************)
(* Values.                                                                 *)
(***************************************************************************)
\* Python's None where a string is expected
NoneVal == "None"
\* the falsy key of describe_stacks (no key given)
NoKey == ""
\* an optional mapping: Absent is None, Some(m) is the mapping m
Absent == {}
Some(m) == {m}
\* tag mappings, as sets of <<key, value>> pairs
EmptyTags == {}
TagsA == {<<"env", "prod">>}
TagsB == {<<"env", "test">>}

\* user-chosen stack names
Names == {"web", "db"}
\* the ids generate_stack_id hands out, in order; a fresh one on each call
IdTable == <<"id1", "id2", "id3", "id4", "id5", "id6">>
generate_stack_id(n) == IdTable[n]
AllIds == {IdTable[n] : n \in 1..MaxStacks}

\* template texts: J1, J2 are accepted by both parsers, Y1 by the YAML parser
\* only, BAD by neither
Templates == {"J1", "J2", "Y1", "BAD"}
ParseError == "ParseError"
\* yaml.load(text): the structured tree, or the parser's ParserError
yaml_load(text) ==
    CASE text = "J1" -> "tree_J1"
      [] text = "J2" -> "tree_J2"
      [] text = "Y1" -> "tree_Y1"
      [] OTHER -> ParseError
\* json.loads(text): the structured tree, or the decoder's error
json_loads(text) ==
    CASE text = "J1" -> "tree_J1"
      [] text = "J2" -> "tree_J2"
      [] OTHER -> ParseError

\* what a resolver call (ResourceMap / OutputMap) may do
ResolverOutcomes == {"ok", "raise"}
\* the outcomes <<resource resolver, output resolver>> of one transition: the
\* output resolver runs only after the resource resolver returned
ResolverRuns == {<<"ok", "ok">>, <<"raise", "ok">>, <<"ok", "raise">>}

\* errors a call ends with; NoError when it returns
NoError == <<>>
ValidationError(key) == <<"ValidationError", key>>
ParseFailure == <<"ParseError">>
ResolutionError == <<"ResolutionError">>
AttributeError == <<"AttributeError">>

(***************************************************************************)
(* FakeEvent and FakeStack.                                                *)
(***************************************************************************)
FakeEvent(stack_id, stack_name, resource_status, resource_status_reason) ==
    [stack_id |-> stack_id,
     stack_name |-> stack_name,
     logical_resource_id |-> stack_name,
     physical_resource_id |-> stack_id,
     resource_type |-> "AWS::CloudFormation::Stack",
     resource_status |-> resource_status,
     resource_status_reason |-> resource_status_reason]

\* _add_stack_event inserting the event at the head of the log
_add_stack_event_at_head(s, resource_status, resource_status_reason) ==
    [s EXCEPT !.events = <<FakeEvent(s.stack_id, s.name, resource_status,
                                     resource_status_reason)>> \o @]

\* FakeStack._add_stack_event: append one stack-scoped event to the log
_add_stack_event(s, resource_status, resource_status_reason) ==
    [s EXCEPT !.events = Append(@, FakeEvent(s.stack_id, s.name,
                                   resource_status, resource_status_reason))]

\* FakeStack._parse_template: yaml first, json on a ParserError
_parse_template(template) ==
    IF yaml_load(template) # ParseError THEN yaml_load(template)
    ELSE json_loads(template)

\* FakeStack._create_output_map: the output map is computed against the
\* stack's resource map and its template_dict
_create_output_map(s) ==
    [resource_map |-> s.resource_map, template_dict |-> s.template_dict]

\* FakeStack.__init__: the constructed object and the error it ended with.
\* res and out are the outcomes of the resource and the output resolver.
FakeStack(stack_id, name, template, tags, role_arn, res, out) ==
    LET s0 == [stack_id |-> stack_id,
               name |-> name,
               template |-> template,
               template_dict |-> _parse_template(template),
               role_arn |-> role_arn,
               tags |-> IF tags = Absent \/ tags = Some(EmptyTags)
                        THEN EmptyTags
                        ELSE CHOOSE m \in tags : TRUE,
               events |-> <<>>,
               resource_map |-> [template |-> NoneVal, deleted |-> FALSE],
               output_map |-> NoneVal,
               status |-> NoneVal]
        s1 == _add_stack_event(s0, "CREATE_IN_PROGRESS", "User Initiated")
        s2 == [s1 EXCEPT !.resource_map =
                            [template |-> s1.template_dict, deleted |-> FALSE]]
        s3 == [s2 EXCEPT !.output_map = _create_output_map(s2)]
        s4 == _add_stack_event(s3, "CREATE_COMPLETE", NoneVal)
        s5 == [s4 EXCEPT !.status = "CREATE_COMPLETE"]
    IN  IF s0.template_dict = ParseError THEN [obj |-> s0, err |-> ParseFailure]
        ELSE IF res = "raise" THEN [obj |-> s1, err |-> ResolutionError]
        ELSE IF out = "raise" THEN [obj |-> s2, err |-> ResolutionError]
        ELSE [obj |-> s5, err |-> NoError]

\* update assigning the tags also when the caller supplied none
update_always_assigns_tags(s, template, role_arn, tags, res, out) ==
    LET s1 == _add_stack_event(s, "UPDATE_IN_PROGRESS", "User Initiated")
        s2 == [s1 EXCEPT !.template = template]
        s3 == [s2 EXCEPT !.resource_map =
                            [template |-> json_loads(template),
                             deleted |-> @.deleted]]
        s4 == [s3 EXCEPT !.output_map = _create_output_map(s3)]
        s5 == _add_stack_event(s4, "UPDATE_COMPLETE", NoneVal)
        s6 == [s5 EXCEPT !.status = "UPDATE_COMPLETE"]
        s7 == [s6 EXCEPT !.role_arn = role_arn]
        s8 == [s7 EXCEPT !.tags = IF tags = Absent THEN EmptyTags
                                  ELSE CHOOSE m \in tags : TRUE]
    IN  IF json_loads(template) = ParseError
        THEN [obj |-> s2, err |-> ParseFailure]
        ELSE IF res = "raise" THEN [obj |-> s2, err |-> ResolutionError]
        ELSE IF out = "raise" THEN [obj |-> s3, err |-> ResolutionError]
        ELSE [obj |-> s8, err |-> NoError]

\* update setting the status when it appends the UPDATE_IN_PROGRESS event
update_marks_in_progress(s, template, role_arn, tags, res, out) ==
    LET s0 == _add_stack_event(s, "UPDATE_IN_PROGRESS", "User Initiated")
        s1 == [s0 EXCEPT !.status = "UPDATE_IN_PROGRESS"]
        s2 == [s1 EXCEPT !.template = template]
        s3 == [s2 EXCEPT !.resource_map =
                            [template |-> json_loads(template),
                             deleted |-> @.deleted]]
        s4 == [s3 EXCEPT !.output_map = _create_output_map(s3)]
        s5 == _add_stack_event(s4, "UPDATE_COMPLETE", NoneVal)
        s6 == [s5 EXCEPT !.status = "UPDATE_COMPLETE"]
        s7 == [s6 EXCEPT !.role_arn = role_arn]
        s8 == IF tags # Absent
              THEN [s7 EXCEPT !.tags = CHOOSE m \in tags : TRUE]
              ELSE s7
    IN  IF json_loads(template) = ParseError
        THEN [obj |-> s2, err |-> ParseFailure]
        ELSE IF res = "raise" THEN [obj |-> s2, err |-> ResolutionError]
        ELSE IF out = "raise" THEN [obj |-> s3, err |-> ResolutionError]
        ELSE [obj |-> s8, err |-> NoError]

\* update without the assignment of line 95
update_keeps_template(s, template, role_arn, tags, res, out) ==
    LET s1 == _add_stack_event(s, "UPDATE_IN_PROGRESS", "User Initiated")
        s3 == [s1 EXCEPT !.resource_map =
                            [template |-> json_loads(template),
                             deleted |-> @.deleted]]
        s4 == [s3 EXCEPT !.output_map = _create_output_map(s3)]
        s5 == _add_stack_event(s4, "UPDATE_COMPLETE", NoneVal)
        s6 == [s5 EXCEPT !.status = "UPDATE_COMPLETE"]
        s7 == [s6 EXCEPT !.role_arn = role_arn]
        s8 == IF tags # Absent
              THEN [s7 EXCEPT !.tags = CHOOSE m \in tags : TRUE]
              ELSE s7
    IN  IF json_loads(template) = ParseError
        THEN [obj |-> s1, err |-> ParseFailure]
        ELSE IF res = "raise" THEN [obj |-> s1, err |-> ResolutionError]
        ELSE IF out = "raise" THEN [obj |-> s3, err |-> ResolutionError]
        ELSE [obj |-> s8, err |-> NoError]

\* FakeStack.update: the object after the call and the error it ended with;
\* on an error the object keeps what was assigned before the raise
update(s, template, role_arn, tags, res, out) ==
    LET s1 == _add_stack_event(s, "UPDATE_IN_PROGRESS", "User Initiated")
        s2 == [s1 EXCEPT !.template = template]
        s3 == [s2 EXCEPT !.resource_map =
                            [template |-> json_loads(template),
                             deleted |-> @.deleted]]
        s4 == [s3 EXCEPT !.output_map = _create_output_map(s3)]
        s5 == _add_stack_event(s4, "UPDATE_COMPLETE", NoneVal)
        s6 == [s5 EXCEPT !.status = "UPDATE_COMPLETE"]
        s7 == [s6 EXCEPT !.role_arn = role_arn]
        s8 == IF tags # Absent
              THEN [s7 EXCEPT !.tags = CHOOSE m \in tags : TRUE]
              ELSE s7
    IN  IF json_loads(template) = ParseError
        THEN [obj |-> s2, err |-> ParseFailure]
        ELSE IF res = "raise" THEN [obj |-> s2, err |-> ResolutionError]
        ELSE IF out = "raise" THEN [obj |-> s3, err |-> ResolutionError]
        ELSE [obj |-> s8, err |-> NoError]

\* delete without the assignment of line 111
delete_keeps_status(s, res) ==
    LET s1 == _add_stack_event(s, "DELETE_IN_PROGRESS", "User Initiated")
        s2 == [s1 EXCEPT !.resource_map = [@ EXCEPT !.deleted = TRUE]]
        s3 == _add_stack_event(s2, "DELETE_COMPLETE", NoneVal)
    IN  IF res = "raise" THEN [obj |-> s1, err |-> ResolutionError]
        ELSE [obj |-> s3, err |-> NoError]

\* FakeStack.delete: as for update
delete(s, res) ==
    LET s1 == _add_stack_event(s, "DELETE_IN_PROGRESS", "User Initiated")
        s2 == [s1 EXCEPT !.resource_map = [@ EXCEPT !.deleted = TRUE]]
        s3 == _add_stack_event(s2, "DELETE_COMPLETE", NoneVal)
        s4 == [s3 EXCEPT !.status = "DELETE_COMPLETE"]
    IN  IF res = "raise" THEN [obj |-> s1, err |-> ResolutionError]
        ELSE [obj |-> s4, err |-> NoError]

(***************************************************************************)
(* CloudFormationBackend.                                                  *)
(***************************************************************************)
VARIABLES
    stacks,          \* OrderedDict stack_id -> FakeStack: its keys, in insertion order
    deleted_stacks,  \* dict stack_id -> FakeStack: its keys
    heap,            \* the FakeStack objects create_stack has registered, by stack_id
    last,            \* the last create, update or delete call: its arguments,
                     \* its result and its error
    raised,          \* has a create, update or delete call ended with an error
    sched,           \* how the delete_stack calls of the threads are scheduled:
                     \* "serial" (one call at a time) or "interleaved"
    thread           \* per thread, the delete_stack call it is in: its frames
                     \* (position and locals, innermost last) and its outcome

vars == <<stacks, deleted_stacks, heap, last, raised, sched, thread>>

\* the registry as one value, for the operators below
Backend == [stacks |-> stacks, deleted_stacks |-> deleted_stacks, heap |-> heap]

Range(seq) == {seq[i] : i \in 1..Len(seq)}

\* OrderedDict.pop(key, None): the keys without key, order kept
Pop(seq, key) == SelectSeq(seq, LAMBDA k : k # key)

\* the for loop of describe_stacks over the active stacks (lines 153-155)
RECURSIVE describe_active(_, _, _)
describe_active(b, values, name_or_stack_id) ==
    IF values = <<>> THEN <<>>
    ELSE LET stack == b.heap[Head(values)]
         IN  IF stack.name = name_or_stack_id \/ stack.stack_id = name_or_stack_id
             THEN <<stack.stack_id>>
             ELSE describe_active(b, Tail(values), name_or_stack_id)

\* describe_stacks matching the deleted stacks by name as well as by id
describe_stacks_deleted_by_name(b, name_or_stack_id) ==
    IF name_or_stack_id # NoKey
    THEN LET active == describe_active(b, b.stacks, name_or_stack_id)
             deleted == {k \in b.deleted_stacks :
                            \/ b.heap[k].stack_id = name_or_stack_id
                            \/ b.heap[k].name = name_or_stack_id}
         IN  IF active # <<>> THEN [result |-> active, err |-> NoError]
             ELSE IF b.deleted_stacks # {} /\ deleted # {}
             THEN [result |-> <<CHOOSE k \in deleted : TRUE>>, err |-> NoError]
             ELSE [result |-> <<>>, err |-> ValidationError(name_or_stack_id)]
    ELSE [result |-> b.stacks, err |-> NoError]

\* CloudFormationBackend.describe_stacks: the stacks returned (by id) and the
\* error raised
describe_stacks(b, name_or_stack_id) ==
    IF name_or_stack_id # NoKey
    THEN LET active == describe_active(b, b.stacks, name_or_stack_id)
             deleted == {k \in b.deleted_stacks :
                            b.heap[k].stack_id = name_or_stack_id}
         IN  IF active # <<>> THEN [result |-> active, err |-> NoError]
             ELSE IF b.deleted_stacks # {} /\ deleted # {}
             THEN [result |-> <<CHOOSE k \in deleted : TRUE>>, err |-> NoError]
             ELSE [result |-> <<>>, err |-> ValidationError(name_or_stack_id)]
    ELSE [result |-> b.stacks, err |-> NoError]

\* CloudFormationBackend.list_stacks
list_stacks(b) == b.stacks

\* the for loop of get_stack over the active stacks (lines 175-177)
RECURSIVE get_by_name(_, _, _)
get_by_name(b, values, name_or_stack_id) ==
    IF values = <<>> THEN NoneVal
    ELSE IF b.heap[Head(values)].name = name_or_stack_id
         THEN b.heap[Head(values)].stack_id
         ELSE get_by_name(b, Tail(values), name_or_stack_id)

\* get_stack whose lookup by id leaves out the deleted stacks
get_stack_active_only(b, name_or_stack_id) ==
    IF name_or_stack_id \in Range(b.stacks)
    THEN b.heap[name_or_stack_id].stack_id
    ELSE get_by_name(b, b.stacks, name_or_stack_id)

\* get_stack without the lookup by id
get_stack_name_only(b, name_or_stack_id) ==
    get_by_name(b, b.stacks, name_or_stack_id)

\* get_stack whose lookup by name goes on to the deleted stacks
get_stack_deleted_by_name(b, name_or_stack_id) ==
    LET all_stacks == b.deleted_stacks \cup Range(b.stacks)
        named == {k \in b.deleted_stacks : b.heap[k].name = name_or_stack_id}
    IN  IF name_or_stack_id \in all_stacks
        THEN b.heap[name_or_stack_id].stack_id
        ELSE IF get_by_name(b, b.stacks, name_or_stack_id) # NoneVal
        THEN get_by_name(b, b.stacks, name_or_stack_id)
        ELSE IF named # {} THEN CHOOSE k \in named : TRUE
        ELSE NoneVal

\* CloudFormationBackend.get_stack: the id of the stack returned, or NoneVal
get_stack(b, name_or_stack_id) ==
    LET all_stacks == b.deleted_stacks \cup Range(b.stacks)
    IN  IF name_or_stack_id \in all_stacks
        THEN b.heap[name_or_stack_id].stack_id
        ELSE get_by_name(b, b.stacks, name_or_stack_id)

\* CloudFormationBackend.delete_stack: the registry after the call and the
\* error it ended with.  bad is the id of the stack whose resource teardown
\* raises in this call (NoneVal: none does).
RECURSIVE delete_stack(_, _, _)
RECURSIVE delete_by_name(_, _, _, _)
\* delete_stack reading the stack with get() where the code pops it
delete_stack_no_pop(b, name_or_stack_id, bad) ==
    IF name_or_stack_id \in Range(b.stacks)
    THEN LET stack == b.heap[name_or_stack_id]
             d == delete(stack, IF stack.stack_id = bad THEN "raise" ELSE "ok")
             b2 == [b EXCEPT !.heap[name_or_stack_id] = d.obj]
             b3 == [b2 EXCEPT !.deleted_stacks = @ \cup {d.obj.stack_id}]
         IN  IF d.err # NoError THEN [b |-> b2, err |-> d.err]
             ELSE [b |-> b3, err |-> NoError]
    ELSE delete_by_name(b, b.stacks, name_or_stack_id, bad)

\* delete_stack without the insertion of line 193
delete_stack_no_insert(b, name_or_stack_id, bad) ==
    IF name_or_stack_id \in Range(b.stacks)
    THEN LET stack == b.heap[name_or_stack_id]
             b1 == [b EXCEPT !.stacks = Pop(@, name_or_stack_id)]
             d == delete(stack, IF stack.stack_id = bad THEN "raise" ELSE "ok")
             b2 == [b1 EXCEPT !.heap[name_or_stack_id] = d.obj]
         IN  IF d.err # NoError THEN [b |-> b2, err |-> d.err]
             ELSE [b |-> b2, err |-> NoError]
    ELSE delete_by_name(b, b.stacks, name_or_stack_id, bad)

\* delete_stack popping the key without a default when no stack has it
delete_stack_strict(b, name_or_stack_id, bad) ==
    IF name_or_stack_id \in Range(b.stacks)
    THEN LET stack == b.heap[name_or_stack_id]
             b1 == [b EXCEPT !.stacks = Pop(@, name_or_stack_id)]
             d == delete(stack, IF stack.stack_id = bad THEN "raise" ELSE "ok")
             b2 == [b1 EXCEPT !.heap[name_or_stack_id] = d.obj]
             b3 == [b2 EXCEPT !.deleted_stacks = @ \cup {d.obj.stack_id}]
         IN  IF d.err # NoError THEN [b |-> b2, err |-> d.err]
             ELSE [b |-> b3, err |-> NoError]
    ELSE IF \A k \in Range(b.stacks) : b.heap[k].name # name_or_stack_id
    THEN [b |-> b, err |-> <<"KeyError">>]
    ELSE delete_by_name(b, b.stacks, name_or_stack_id, bad)

delete_stack(b, name_or_stack_id, bad) ==
    IF name_or_stack_id \in Range(b.stacks)
    THEN LET stack == b.heap[name_or_stack_id]
             b1 == [b EXCEPT !.stacks = Pop(@, name_or_stack_id)]
             d == delete(stack, IF stack.stack_id = bad THEN "raise" ELSE "ok")
             b2 == [b1 EXCEPT !.heap[name_or_stack_id] = d.obj]
             b3 == [b2 EXCEPT !.deleted_stacks = @ \cup {d.obj.stack_id}]
             b4 == [b3 EXCEPT !.stacks = Pop(@, name_or_stack_id)]
         IN  IF d.err # NoError THEN [b |-> b2, err |-> d.err]
             ELSE [b |-> b4, err |-> NoError]
    ELSE delete_by_name(b, b.stacks, name_or_stack_id, bad)

\* the loop returning after the first stack of that name
delete_by_name_first(b, values, name_or_stack_id, bad) ==
    IF values = <<>> THEN [b |-> b, err |-> NoError]
    ELSE LET stack == b.heap[Head(values)]
         IN  IF stack.name = name_or_stack_id
             THEN delete_stack(b, stack.stack_id, bad)
             ELSE delete_by_name(b, Tail(values), name_or_stack_id, bad)

\* the for loop of delete_stack over a copy of the active stacks (lines 197-199)
delete_by_name(b, values, name_or_stack_id, bad) ==
    IF values = <<>> THEN [b |-> b, err |-> NoError]
    ELSE LET stack == b.heap[Head(values)]
         IN  IF stack.name = name_or_stack_id
             THEN LET r == delete_stack(b, stack.stack_id, bad)
                  IN  IF r.err # NoError THEN r
                      ELSE delete_by_name(r.b, Tail(values), name_or_stack_id, bad)
             ELSE delete_by_name(b, Tail(values), name_or_stack_id, bad)

(***************************************************************************)
(* The calls.                                                              *)
(***************************************************************************)
Call(op, key, template, role_arn, tags, result, err) ==
    [op |-> op, key |-> key, template |-> template, role_arn |-> role_arn,
     tags |-> tags, result |-> result, err |-> err]

\* the threads that call delete_stack on the one backend
Threads == {"t1", "t2"}
\* a thread that is in no call and has made none
NoCall == [frames |-> <<>>, key |-> NoneVal, err |-> NoError, n |-> 0]

Init ==
    /\ stacks = <<>>
    /\ deleted_stacks = {}
    /\ heap = [k \in {} |-> NoneVal]
    /\ last = Call("init", NoneVal, NoneVal, NoneVal, Absent, <<>>, NoError)
    /\ raised = FALSE
    /\ sched = "serial"
    /\ thread = [t \in Threads |-> NoCall]

\* create_stack storing the stack before its construction has succeeded
CreateStack_registers_first(name, template, tags, role_arn, res, out) ==
    /\ LET stack_id == generate_stack_id(Cardinality(DOMAIN heap) + 1)
           new == FakeStack(stack_id, name, template, tags, role_arn, res, out)
       IN  /\ stacks' = Append(stacks, stack_id)
           /\ heap' = (stack_id :> new.obj) @@ heap
           /\ UNCHANGED deleted_stacks
           /\ last' = Call("create", name, template, role_arn, tags,
                           IF new.err = NoError THEN <<stack_id>> ELSE <<>>,
                           new.err)
           /\ raised' = (raised \/ new.err # NoError)
    /\ UNCHANGED <<sched, thread>>

\* create_stack(name, template, ..., tags, role_arn)
CreateStack(name, template, tags, role_arn, res, out) ==
    /\ LET stack_id == generate_stack_id(Cardinality(DOMAIN heap) + 1)
           new == FakeStack(stack_id, name, template, tags, role_arn, res, out)
       IN  IF new.err # NoError
           THEN /\ UNCHANGED <<stacks, deleted_stacks, heap>>
                /\ last' = Call("create", name, template, role_arn, tags, <<>>, new.err)
                /\ raised' = TRUE
           ELSE /\ stacks' = IF stack_id \in Range(stacks) THEN stacks
                             ELSE Append(stacks, stack_id)
                /\ heap' = (stack_id :> new.obj) @@ heap
                /\ UNCHANGED deleted_stacks
                /\ last' = Call("create", name, template, role_arn, tags,
                                <<stack_id>>, NoError)
                /\ UNCHANGED raised
    /\ UNCHANGED <<sched, thread>>

\* The three queries assign nothing: a call returns the value (or raises the
\* error) of the operator of its name and leaves the registry as it is.

\* describe_stacks(name_or_stack_id): returns describe_stacks(Backend, key)
DescribeStacks(key) ==
    /\ UNCHANGED vars
    /\ describe_stacks(Backend, key).err \in {NoError, ValidationError(key)}

\* list_stacks(): returns list_stacks(Backend)
ListStacks ==
    /\ UNCHANGED vars
    /\ list_stacks(Backend) \in Seq(DOMAIN heap)

\* get_stack(name_or_stack_id): returns get_stack(Backend, key)
GetStack(key) ==
    /\ UNCHANGED vars
    /\ get_stack(Backend, key) \in DOMAIN heap \cup {NoneVal}

\* the number of lifecycle transitions the registered stacks' logs show
Started(s) == Cardinality({i \in 1..Len(s.events) :
                  s.events[i].resource_status \in
                      {"CREATE_IN_PROGRESS", "UPDATE_IN_PROGRESS", "DELETE_IN_PROGRESS"}})
RECURSIVE SumStarted(_)
SumStarted(ids) ==
    IF ids = {} THEN 0
    ELSE LET k == CHOOSE x \in ids : TRUE
         IN  Started(heap[k]) + SumStarted(ids \ {k})
Calls == SumStarted(DOMAIN heap)

\* update_stack(name, template, role_arn, parameters, tags)
UpdateStack(key, template, role_arn, tags, res, out) ==
    /\ UNCHANGED <<sched, thread>>
    /\ LET stack == get_stack(Backend, key)
       IN  IF stack = NoneVal
           THEN /\ UNCHANGED <<stacks, deleted_stacks, heap>>
                /\ last' = Call("update", key, template, role_arn, tags, <<>>,
                                AttributeError)
                /\ raised' = TRUE
           ELSE /\ LET u == update(heap[stack], template, role_arn, tags, res, out)
                   IN  /\ heap' = [heap EXCEPT ![stack] = u.obj]
                       /\ last' = Call("update", key, template, role_arn, tags,
                                       IF u.err = NoError THEN <<stack>> ELSE <<>>,
                                       u.err)
                       /\ raised' = (raised \/ u.err # NoError)
                /\ UNCHANGED <<stacks, deleted_stacks>>

\* delete_stack(name_or_stack_id)
DeleteStack(key, bad) ==
    /\ LET r == delete_stack(Backend, key, bad)
       IN  /\ stacks' = r.b.stacks
           /\ deleted_stacks' = r.b.deleted_stacks
           /\ heap' = r.b.heap
           /\ last' = Call("delete", key, NoneVal, NoneVal, Absent, <<>>, r.err)
           /\ raised' = (raised \/ r.err # NoError)
    /\ UNCHANGED <<sched, thread>>

\* the keys a caller may pass: names, and ids handed out or not
Keys == Names \cup AllIds
\* the names a caller may give a new stack: a name may be an id already handed out
NewNames == Names \cup DOMAIN heap
CreateTemplates == {"J1", "BAD"}
UpdateTemplates == {"J2", "BAD"}
CreateTags == {Absent}
UpdateTags == {Absent}
CreateRoles == {NoneVal}
UpdateRoles == {NoneVal}

Next ==
    \/ /\ Cardinality(DOMAIN heap) < MaxStacks
       /\ Calls < MaxCalls
       /\ \E name \in NewNames, template \in CreateTemplates, tags \in CreateTags,
             role_arn \in CreateRoles, run \in ResolverRuns :
             CreateStack(name, template, tags, role_arn, run[1], run[2])
    \/ \E key \in Keys \cup {NoKey} : DescribeStacks(key)
    \/ ListStacks
    \/ \E key \in Keys : GetStack(key)
    \/ /\ Calls < MaxCalls
       /\ \E key \in Keys, template \in UpdateTemplates, tags \in UpdateTags,
             role_arn \in UpdateRoles, run \in ResolverRuns :
             UpdateStack(key, template, role_arn, tags, run[1], run[2])
    \/ /\ Calls < MaxCalls
       /\ \E key \in Keys, bad \in Range(stacks) \cup {NoneVal} :
             DeleteStack(key, bad)

Spec == Init /\ [][Next]_vars

\* The calls with the tags and the role_arn the caller may or may not supply:
\* few stacks, one template, every combination of the two arguments.
MaxTagStacks == 1
MaxTagCalls == 3
TagNames == {"web"}
TagsCreateTags == {Absent, Some(EmptyTags), Some(TagsA)}
TagsUpdateTags == {Absent, Some(EmptyTags), Some(TagsB)}
TagsCreateRoles == {NoneVal, "roleA"}
TagsUpdateRoles == {NoneVal, "roleB"}

NextTags ==
    \/ /\ Cardinality(DOMAIN heap) < MaxTagStacks
       /\ Calls < MaxTagCalls
       /\ \E name \in TagNames, tags \in TagsCreateTags,
             role_arn \in TagsCreateRoles :
             CreateStack(name, "J1", tags, role_arn, "ok", "ok")
    \/ /\ Calls < MaxTagCalls
       /\ \E key \in TagNames, tags \in TagsUpdateTags,
             role_arn \in TagsUpdateRoles, run \in ResolverRuns :
             UpdateStack(key, "J2", role_arn, tags, run[1], run[2])

SpecTags == Init /\ [][NextTags]_vars

\* delete_stack called from several threads: each of its statements is one
\* step, so the calls of two threads interleave between any two of them when
\* the schedule is "interleaved"; under "serial" a call begins only when no
\* other call is under way.  The resource teardown succeeds here.
MaxConcStacks == 2
MaxConcCalls == 2
ConcNames == {"web"}

\* one activation of delete_stack: the statement it is at, its argument,
\* the local 'stack' of the by-id branch and what is left of the list the
\* by-name branch iterates over
Frame(pc, name_or_stack_id, stack, todo) ==
    [pc |-> pc, key |-> name_or_stack_id, stack |-> stack, todo |-> todo]
Idle(t) == thread[t].frames = <<>>
Top(t) == thread[t].frames[Len(thread[t].frames)]
At(t, pc) == ~ Idle(t) /\ Top(t).pc = pc
Goto(t, f) == thread' = [thread EXCEPT ![t].frames[Len(thread[t].frames)] = f]
MayRun(t) == sched = "interleaved" \/ \A u \in Threads \ {t} : Idle(u)
Untouched == UNCHANGED <<stacks, deleted_stacks, heap, last, raised, sched>>

\* a thread calls delete_stack(name_or_stack_id)
DeleteStackCall(t, name_or_stack_id) ==
    /\ Idle(t) /\ MayRun(t)
    /\ thread[t].n < MaxConcCalls
    /\ thread' = [thread EXCEPT ![t] =
                      [frames |-> <<Frame("test", name_or_stack_id, NoneVal, <<>>)>>,
                       key |-> name_or_stack_id,
                       err |-> NoError,
                       n |-> @.n + 1]]
    /\ Untouched

\* the membership test taking the by-id branch whatever the index holds
DeleteStackTest_always_by_id(t) ==
    /\ At(t, "test")
    /\ Goto(t, [Top(t) EXCEPT !.pc = "pop"])
    /\ Untouched

\* line 189: if name_or_stack_id in self.stacks
DeleteStackTest(t) ==
    /\ At(t, "test")
    /\ Goto(t, [Top(t) EXCEPT !.pc = IF Top(t).key \in Range(stacks)
                                     THEN "pop" ELSE "list"])
    /\ Untouched

\* line 191: stack = self.stacks.pop(name_or_stack_id, None)
DeleteStackPop(t) ==
    /\ At(t, "pop")
    /\ Goto(t, [Top(t) EXCEPT !.pc = "delete",
                              !.stack = IF Top(t).key \in Range(stacks)
                                        THEN Top(t).key ELSE NoneVal])
    /\ stacks' = Pop(stacks, Top(t).key)
    /\ UNCHANGED <<deleted_stacks, heap, last, raised, sched>>

\* line 192: stack.delete(); on None the AttributeError ends the call and
\* every activation below it
DeleteStackDelete(t) ==
    /\ At(t, "delete")
    /\ IF Top(t).stack = NoneVal
       THEN /\ thread' = [thread EXCEPT ![t].frames = <<>>,
                                        ![t].err = AttributeError]
            /\ raised' = TRUE
            /\ UNCHANGED heap
       ELSE /\ heap' = [heap EXCEPT ![Top(t).stack] = delete(@, "ok").obj]
            /\ Goto(t, [Top(t) EXCEPT !.pc = "insert"])
            /\ UNCHANGED raised
    /\ UNCHANGED <<stacks, deleted_stacks, last, sched>>

\* line 193: self.deleted_stacks[stack.stack_id] = stack
DeleteStackInsert(t) ==
    /\ At(t, "insert")
    /\ deleted_stacks' = deleted_stacks \cup {heap[Top(t).stack].stack_id}
    /\ Goto(t, [Top(t) EXCEPT !.pc = "return"])
    /\ UNCHANGED <<stacks, heap, last, raised, sched>>

\* line 194: return self.stacks.pop(name_or_stack_id, None)
DeleteStackReturn(t) ==
    /\ At(t, "return")
    /\ stacks' = Pop(stacks, Top(t).key)
    /\ thread' = [thread EXCEPT ![t].frames = SubSeq(@, 1, Len(@) - 1)]
    /\ UNCHANGED <<deleted_stacks, heap, last, raised, sched>>

\* line 197: list(self.stacks.values()), the stacks the loop will visit;
\* those the test of line 198 skips are left out (a name never changes)
DeleteStackList(t) ==
    /\ At(t, "list")
    /\ Goto(t, [Top(t) EXCEPT
                   !.pc = "for",
                   !.todo = SelectSeq(stacks,
                                LAMBDA k : heap[k].name = Top(t).key)])
    /\ Untouched

\* lines 197-199: the next iteration calls self.delete_stack(stack.stack_id);
\* the call returns when the list is exhausted
DeleteStackFor(t) ==
    /\ At(t, "for")
    /\ IF Top(t).todo = <<>>
       THEN thread' = [thread EXCEPT ![t].frames = SubSeq(@, 1, Len(@) - 1)]
       ELSE thread' = [thread EXCEPT ![t].frames =
                          Append([@ EXCEPT ![Len(@)].todo = Tail(@)],
                                 Frame("test", Head(Top(t).todo), NoneVal, <<>>))]
    /\ Untouched

ConcCreated == Cardinality(DOMAIN heap)

InitConc ==
    /\ stacks = <<>>
    /\ deleted_stacks = {}
    /\ heap = [k \in {} |-> NoneVal]
    /\ last = Call("init", NoneVal, NoneVal, NoneVal, Absent, <<>>, NoError)
    /\ raised = FALSE
    /\ sched \in {"serial", "interleaved"}
    /\ thread = [t \in Threads |-> NoCall]

NextConc ==
    \/ /\ ConcCreated < MaxConcStacks
       /\ sched = "interleaved" \/ \A t \in Threads : Idle(t)
       /\ \E name \in ConcNames :
             CreateStack(name, "J1", Absent, NoneVal, "ok", "ok")
    \/ \E t \in Threads, key \in ConcNames \cup DOMAIN heap :
          DeleteStackCall(t, key)
    \/ \E t \in Threads : DeleteStackTest(t)
    \/ \E t \in Threads : DeleteStackPop(t)
    \/ \E t \in Threads : DeleteStackDelete(t)
    \/ \E t \in Threads : DeleteStackInsert(t)
    \/ \E t \in Threads : DeleteStackReturn(t)
    \/ \E t \in Threads : DeleteStackList(t)
    \/ \E t \in Threads : DeleteStackFor(t)

SpecConc == InitConc /\ [][NextConc]_vars

(***************************************************************************)
(* Properties.                                                             *)
(***************************************************************************)
Active == Range(stacks)
Indexed == Active \cup deleted_stacks
Statuses(s) == [i \in 1..Len(s.events) |-> s.events[i].resource_status]

\* C1: after any sequence of create, update and delete calls that all
\* completed without an error, every stack in the active or the deleted index
\* has a non-empty event log whose last event carries the stack's status.
C1_LastEventIsStatus ==
    ~raised =>
        \A k \in Indexed :
            /\ heap[k].events # <<>>
            /\ heap[k].events[Len(heap[k].events)].resource_status = heap[k].status

\* an error-free run has left an updated stack in the active index and a
\* deleted one in the deleted index
C1_Witness ==
    /\ ~raised
    /\ \E k \in Active : heap[k].status = "UPDATE_COMPLETE"
    /\ \E k \in deleted_stacks : heap[k].status = "DELETE_COMPLETE"

\* C2: no stack id is a key of both the active and the deleted index.
C2_IndexesDisjoint == Active \cap deleted_stacks = {}

\* a delete by name has just moved two same-named stacks to the deleted index
\* while a third stack stays active
C2_Witness ==
    /\ last.op = "delete" /\ last.key \in Names /\ last.err = NoError
    /\ Cardinality({k \in deleted_stacks : heap[k].name = last.key}) >= 2
    /\ Active # {}

\* C3: a stack is never destroyed, only relocated: a registered id stays a
\* key of the active or the deleted index in every later state, also after a
\* delete call whose resource teardown failed; entries enter the deleted index
\* only through a delete call, and an entry of the deleted index is never
\* removed nor moved back to the active index.
C3_NeverDestroyed ==
    /\ [](DOMAIN heap \subseteq Indexed)
    /\ [][/\ deleted_stacks \subseteq deleted_stacks'
          /\ Range(stacks') \cap deleted_stacks = {}
          /\ (deleted_stacks' # deleted_stacks => last'.op = "delete")]_vars

\* the first position of the active index whose stack has the key as its name
\* or its id, 0 if there is none
FirstActive(key) ==
    LET M == {i \in 1..Len(stacks) :
                 heap[stacks[i]].name = key \/ stacks[i] = key}
    IN  IF M = {} THEN 0 ELSE CHOOSE i \in M : \A j \in M : i <= j
\* the first position of the active index whose stack has the key as its name
FirstNamed(key) ==
    LET M == {i \in 1..Len(stacks) : heap[stacks[i]].name = key}
    IN  IF M = {} THEN 0 ELSE CHOOSE i \in M : \A j \in M : i <= j
Returned(ids) == [result |-> ids, err |-> NoError]
Created == last.op = "create" /\ last.err = NoError

\* C4 as stated: right after create_stack returned the stack S with name N and
\* id I, whatever was created or deleted before, get_stack(N) and get_stack(I)
\* return S and describe_stacks(N) and describe_stacks(I) return [S].
C4_CreatedIsFound ==
    Created =>
        LET I == last.result[1]
            N == last.key
        IN  /\ get_stack(Backend, N) = I
            /\ get_stack(Backend, I) = I
            /\ describe_stacks(Backend, N) = Returned(<<I>>)
            /\ describe_stacks(Backend, I) = Returned(<<I>>)

\* C4 amended: right after create_stack returned the stack S with name N and
\* id I, get_stack(I) returns S and describe_stacks(I) returns [S] in any
\* registry state; get_stack(N) returns S exactly when N is not the id of a
\* stack in either index and no other active stack is named N, and
\* describe_stacks(N) returns [S] exactly when no other active stack has the
\* name or the id N.
C4_CreatedIsFoundUnlessShadowed ==
    Created =>
        LET I == last.result[1]
            N == last.key
            others == Active \ {I}
        IN  /\ heap[I].name = N /\ heap[I].stack_id = I
            /\ get_stack(Backend, I) = I
            /\ describe_stacks(Backend, I) = Returned(<<I>>)
            /\ (get_stack(Backend, N) = I) <=>
                   (N \notin Indexed /\ \A k \in others : heap[k].name # N)
            /\ (describe_stacks(Backend, N) = Returned(<<I>>)) <=>
                   (\A k \in others : heap[k].name # N /\ k # N)

\* a stack was just created under the name of a deleted stack, next to an
\* active stack of another name, and is found by its name
C4_Witness ==
    /\ Created
    /\ \E k \in deleted_stacks : heap[k].name = last.key
    /\ \E k \in Active : heap[k].name # last.key
    /\ get_stack(Backend, last.key) = last.result[1]
    /\ describe_stacks(Backend, last.key) = Returned(<<last.result[1]>>)

\* the position of an id in the order generate_stack_id handed the ids out
CreationIndex(id) == CHOOSE n \in 1..Len(IdTable) : IdTable[n] = id

\* what describe_stacks is to compute for a key
DescribeExpected(key) ==
    IF key = NoKey THEN Returned(stacks)
    ELSE IF FirstActive(key) # 0 THEN Returned(<<stacks[FirstActive(key)]>>)
    ELSE IF key \in deleted_stacks THEN Returned(<<key>>)
    ELSE [result |-> <<>>, err |-> ValidationError(key)]

\* C5: in every registry state describe_stacks without a key returns exactly
\* the active stacks in creation order, as list_stacks does; with a key it
\* returns the first active stack whose name or id is the key, else the deleted
\* stack whose id is the key (never one matched by name), else it raises
\* ValidationError(key); the result never holds both an active and a deleted
\* stack.
C5_DescribeComputes ==
    /\ LET all == describe_stacks(Backend, NoKey).result
       IN  /\ describe_stacks(Backend, NoKey).err = NoError
           /\ Range(all) = Active
           /\ Len(all) = Cardinality(Active)
           /\ \A i, j \in 1..Len(all) :
                  i < j => CreationIndex(all[i]) < CreationIndex(all[j])
           /\ list_stacks(Backend) = all
    /\ \A key \in Keys :
           LET r == describe_stacks(Backend, key)
           IN  /\ r = DescribeExpected(key)
               /\ \A k \in Range(r.result) \cap deleted_stacks : k = key
               /\ ~ (Range(r.result) \cap Active # {}
                     /\ Range(r.result) \cap deleted_stacks # {})

\* in one state describe_stacks returns a deleted stack for its id, raises
\* ValidationError for that stack's name, returns the first of two active
\* stacks of one name, and lists two active stacks without a key
C5_Witness ==
    /\ \E k \in deleted_stacks :
           /\ describe_stacks(Backend, k) = Returned(<<k>>)
           /\ describe_stacks(Backend, heap[k].name).err =
                  ValidationError(heap[k].name)
    /\ \E i, j \in 1..Len(stacks) :
           /\ i < j /\ heap[stacks[i]].name = heap[stacks[j]].name
           /\ describe_stacks(Backend, heap[stacks[j]].name) = Returned(<<stacks[i]>>)
    /\ Len(describe_stacks(Backend, NoKey).result) = 2

\* what get_stack is to return for a key
GetExpected(key) ==
    IF key \in Indexed THEN key
    ELSE IF FirstNamed(key) # 0 THEN stacks[FirstNamed(key)]
    ELSE NoneVal

\* C6: get_stack never fails and never changes the registry; in every registry
\* state it returns the stack whose id is the key if the active or the deleted
\* index has one, else the first active stack named by the key, else nothing;
\* a deleted stack is never returned for a key that is only its name.
C6_GetStackComputes ==
    /\ [](\A key \in Keys :
              /\ get_stack(Backend, key) = GetExpected(key)
              /\ get_stack(Backend, key) \in deleted_stacks =>
                     get_stack(Backend, key) = key)
    /\ [][\A key \in Keys : GetStack(key) =>
              UNCHANGED <<stacks, deleted_stacks, heap>>]_vars

\* in one state get_stack returns nothing for the name of a deleted stack,
\* that stack for its id, and the first of two active stacks of one name
C6_Witness ==
    /\ \E k \in deleted_stacks :
           /\ get_stack(Backend, heap[k].name) = NoneVal
           /\ get_stack(Backend, k) = k
    /\ \E i, j \in 1..Len(stacks) :
           /\ i < j /\ heap[stacks[i]].name = heap[stacks[j]].name
           /\ get_stack(Backend, heap[stacks[j]].name) = stacks[i]

DeleteCall == last'.op = "delete"

\* C7 as stated: after delete_stack(id) has returned for an active stack with
\* that id and the name N, the stack is no longer in list_stacks(),
\* describe_stacks(id) still returns it, with status DELETE_COMPLETE, and
\* describe_stacks(N) raises ValidationError.
C7_AfterDeleteById ==
    [][(DeleteCall /\ last'.key \in Active /\ last'.err = NoError) =>
          LET I == last'.key
              N == heap[I].name
          IN  /\ I \notin Range(list_stacks(Backend'))
              /\ describe_stacks(Backend', I) = Returned(<<I>>)
              /\ heap'[I].status = "DELETE_COMPLETE"
              /\ describe_stacks(Backend', N).err = ValidationError(N)]_vars

\* C7 amended: after delete_stack(id) has returned for an active stack with
\* that id and the name N, the stack is no longer in list_stacks(), is in the
\* deleted index and has status DELETE_COMPLETE; describe_stacks(id) returns
\* it unless a remaining active stack is named id; describe_stacks(N) raises
\* ValidationError unless N is the name of a remaining active stack or the id
\* of a stack in either index.
C7_AfterDeleteByIdUnlessShadowed ==
    [][(DeleteCall /\ last'.key \in Active /\ last'.err = NoError) =>
          LET I == last'.key
              N == heap[I].name
              remaining == Range(stacks')
          IN  /\ I \notin Range(list_stacks(Backend'))
              /\ I \in deleted_stacks'
              /\ heap'[I].status = "DELETE_COMPLETE"
              /\ (describe_stacks(Backend', I) = Returned(<<I>>)) <=>
                     (\A k \in remaining : heap'[k].name # I)
              /\ (describe_stacks(Backend', N).err = ValidationError(N)) <=>
                     /\ \A k \in remaining : heap'[k].name # N
                     /\ N \notin remaining \cup deleted_stacks']_vars

\* a delete by id has just completed beside a stack that stays active: the
\* deleted stack is described by its id and no longer by its name
C7_Witness ==
    /\ last.op = "delete" /\ last.err = NoError
    /\ last.key \in deleted_stacks
    /\ Active # {}
    /\ describe_stacks(Backend, last.key) = Returned(<<last.key>>)
    /\ heap[last.key].status = "DELETE_COMPLETE"
    /\ describe_stacks(Backend, heap[last.key].name).err =
           ValidationError(heap[last.key].name)

\* C8: delete_stack with a key that is neither the id nor the name of an
\* active stack (the id of an already deleted stack included) does not fail
\* and leaves both indexes and every stack's status and events unchanged.
C8_DeleteUnknownIsNoOp ==
    [][(/\ DeleteCall
        /\ last'.key \notin Active
        /\ \A k \in Active : heap[k].name # last'.key) =>
          /\ last'.err = NoError
          /\ stacks' = stacks
          /\ deleted_stacks' = deleted_stacks
          /\ DOMAIN heap' = DOMAIN heap
          /\ \A k \in DOMAIN heap :
                 /\ heap'[k].status = heap[k].status
                 /\ heap'[k].events = heap[k].events]_vars

\* a delete has just returned whose key is the id of a stack that had been
\* deleted before and updated since (so this delete was a repeated one),
\* while another stack is active
C8_Witness ==
    /\ last.op = "delete" /\ last.err = NoError
    /\ last.key \in deleted_stacks
    /\ Statuses(heap[last.key]) =
           <<"CREATE_IN_PROGRESS", "CREATE_COMPLETE", "DELETE_IN_PROGRESS",
             "DELETE_COMPLETE", "UPDATE_IN_PROGRESS">>
    /\ \A k \in Active : heap[k].name # last.key

\* C9: a delete_stack(name) call that returns, the name not being an active
\* id, has deleted every active stack of that name, however many: each has
\* left the active index, reached DELETE_COMPLETE and entered the deleted
\* index under its id, while the active stacks of another name stay, in their
\* order, status and events unchanged.
C9_DeleteByName ==
    [][(DeleteCall /\ last'.key \notin Active /\ last'.err = NoError) =>
          LET N == last'.key
              named == {k \in Active : heap[k].name = N}
          IN  /\ \A k \in named :
                     /\ k \notin Range(stacks')
                     /\ heap'[k].status = "DELETE_COMPLETE"
                     /\ k \in deleted_stacks'
              /\ stacks' = SelectSeq(stacks, LAMBDA k : heap[k].name # N)
              /\ \A k \in Active \ named :
                     /\ heap'[k].status = heap[k].status
                     /\ heap'[k].events = heap[k].events]_vars

\* one delete by name has just moved two stacks of that name to the deleted
\* index and left a stack of another name active
C9_Witness ==
    /\ last.op = "delete" /\ last.err = NoError /\ last.key \in Names
    /\ Cardinality({k \in deleted_stacks : heap[k].name = last.key}) = 2
    /\ \E k \in Active : heap[k].name # last.key
    /\ Calls = MaxCalls + 1

\* C10: a successful update keeps the stack's id and name, replaces its
\* template by the supplied text, sets its status to UPDATE_COMPLETE and
\* appends exactly UPDATE_IN_PROGRESS then UPDATE_COMPLETE to its log, the
\* earlier events staying in place; no other stack and neither index's key
\* set changes.
C10_UpdateEffect ==
    [][(last'.op = "update" /\ last'.err = NoError) =>
          LET k == last'.result[1]
              n == Len(heap[k].events)
          IN  /\ k \in DOMAIN heap
              /\ heap'[k].stack_id = heap[k].stack_id
              /\ heap'[k].name = heap[k].name
              /\ heap'[k].template = last'.template
              /\ heap'[k].status = "UPDATE_COMPLETE"
              /\ Len(heap'[k].events) = n + 2
              /\ SubSeq(heap'[k].events, 1, n) = heap[k].events
              /\ heap'[k].events[n + 1].resource_status = "UPDATE_IN_PROGRESS"
              /\ heap'[k].events[n + 2].resource_status = "UPDATE_COMPLETE"
              /\ DOMAIN heap' = DOMAIN heap
              /\ \A j \in DOMAIN heap \ {k} : heap'[j] = heap[j]
              /\ stacks' = stacks
              /\ deleted_stacks' = deleted_stacks]_vars

\* an update has just replaced the template of one of several stacks
C10_Witness ==
    /\ last.op = "update" /\ last.err = NoError
    /\ Cardinality(DOMAIN heap) >= 2
    /\ LET k == last.result[1]
       IN  /\ heap[k].template = last.template
           /\ heap[k].template_dict # json_loads(last.template)
           /\ Len(heap[k].events) = 4

Registry == <<stacks, deleted_stacks, heap>>
UpdateCall == last'.op = "update"

\* C12: DELETE_COMPLETE is terminal: once a stack has been deleted no later
\* call changes its status or appends an event to its log, and an update
\* addressed to it is rejected.
C12_DeletedIsTerminal ==
    [][/\ \A k \in DOMAIN heap :
              heap[k].status = "DELETE_COMPLETE" =>
                  /\ heap'[k].status = heap[k].status
                  /\ heap'[k].events = heap[k].events
       /\ (/\ UpdateCall
           /\ get_stack(Backend, last'.key) # NoneVal
           /\ heap[get_stack(Backend, last'.key)].status = "DELETE_COMPLETE") =>
              last'.err # NoError]_vars

\* C13: update_stack with a key get_stack does not resolve fails with the
\* not-found error (ValidationError carrying the key) and leaves both indexes
\* and every stack unchanged.
C13_UpdateUnknownIsNotFound ==
    [][(UpdateCall /\ get_stack(Backend, last'.key) = NoneVal) =>
          /\ last'.err = ValidationError(last'.key)
          /\ UNCHANGED Registry]_vars

\* C14: registration is all or nothing: when create_stack fails because the
\* template parser, the resource resolver or the output resolver raises, that
\* error reaches the caller and both indexes (and every registered stack) are
\* as they were before the call.
C14_CreateAllOrNothing ==
    [][(last'.op = "create" /\ last'.err # NoError) =>
          /\ last'.err =
                 IF _parse_template(last'.template) = ParseError
                 THEN ParseFailure ELSE ResolutionError
          /\ last'.result = <<>>
          /\ UNCHANGED Registry]_vars

\* a create has just failed on an unparsable template beside an active and a
\* deleted stack, with room left for the stack it would have stored
C14_Witness ==
    /\ last.op = "create" /\ last.err = ParseFailure
    /\ Active # {} /\ deleted_stacks # {}
    /\ Cardinality(DOMAIN heap) < MaxStacks

\* C15: when update_stack is given a template text that cannot be parsed the
\* update fails and commits nothing: template, status, events, tags and
\* role_arn of the stack are after the call what they were before.
C15_UnparsableUpdateCommitsNothing ==
    [][(/\ UpdateCall
        /\ get_stack(Backend, last'.key) # NoneVal
        /\ _parse_template(last'.template) = ParseError) =>
          LET k == get_stack(Backend, last'.key)
          IN  /\ last'.err # NoError
              /\ heap'[k].template = heap[k].template
              /\ heap'[k].status = heap[k].status
              /\ heap'[k].events = heap[k].events
              /\ heap'[k].tags = heap[k].tags
              /\ heap'[k].role_arn = heap[k].role_arn]_vars

IsPrefix(a, b) == Len(a) <= Len(b) /\ SubSeq(b, 1, Len(a)) = a

\* C16: every stack's event log is append-only (the log of an earlier state is
\* a prefix of the log of every later state) and starts with
\* CREATE_IN_PROGRESS, CREATE_COMPLETE; a stack just created has exactly these
\* two events and the status CREATE_COMPLETE.
C16_EventsAppendOnly ==
    /\ [](/\ \A k \in DOMAIN heap :
                 /\ Len(heap[k].events) >= 2
                 /\ heap[k].events[1].resource_status = "CREATE_IN_PROGRESS"
                 /\ heap[k].events[2].resource_status = "CREATE_COMPLETE"
          /\ Created =>
                 /\ Len(heap[last.result[1]].events) = 2
                 /\ heap[last.result[1]].status = "CREATE_COMPLETE")
    /\ [][/\ DOMAIN heap \subseteq DOMAIN heap'
          /\ \A k \in DOMAIN heap : IsPrefix(heap[k].events, heap'[k].events)]_vars

\* a stack has been created, updated and deleted: its log holds the three
\* pairs of events in that order
C16_Witness ==
    \E k \in DOMAIN heap :
        Statuses(heap[k]) =
            <<"CREATE_IN_PROGRESS", "CREATE_COMPLETE", "UPDATE_IN_PROGRESS",
              "UPDATE_COMPLETE", "DELETE_IN_PROGRESS", "DELETE_COMPLETE">>

\* C17: after construction and after a successful update the stack's
\* template_dict is the parse of its current template text, and the output map
\* the transition built was computed against that structured template.
C17_TemplateDictIsParse ==
    [][(last'.op \in {"create", "update"} /\ last'.err = NoError) =>
          LET s == heap'[last'.result[1]]
          IN  /\ s.template = last'.template
              /\ s.template_dict = _parse_template(s.template)
              /\ s.output_map.template_dict = _parse_template(s.template)]_vars

CompleteStatuses == {"CREATE_COMPLETE", "UPDATE_COMPLETE", "DELETE_COMPLETE"}
\* the transition the stack k started in this step stopped after its first
\* event: the in-progress event is the one event appended and the status is
\* the *_COMPLETE status the stack had
Interrupted(k, in_progress) ==
    /\ Len(heap'[k].events) = Len(heap[k].events) + 1
    /\ IsPrefix(heap[k].events, heap'[k].events)
    /\ heap'[k].events[Len(heap'[k].events)].resource_status = in_progress
    /\ heap'[k].status = heap[k].status
    /\ heap[k].status \in CompleteStatuses

\* C18: when a resolver fails during a stack's update or delete transition the
\* error reaches the caller, no *_COMPLETE event is appended for that
\* transition, the UPDATE_IN_PROGRESS or DELETE_IN_PROGRESS event already
\* appended stays the last entry of the log, and the stack's status keeps the
\* *_COMPLETE value it had before the call.
C18_FailedTransitionKeepsStatus ==
    [][/\ (UpdateCall /\ last'.err = ResolutionError) =>
              Interrupted(get_stack(Backend, last'.key), "UPDATE_IN_PROGRESS")
       /\ (DeleteCall /\ last'.err = ResolutionError) =>
              \E k \in Active :
                  /\ Interrupted(k, "DELETE_IN_PROGRESS")
                  /\ \A j \in DOMAIN heap \ {k} :
                         \/ heap'[j] = heap[j]
                         \/ /\ j \in Active
                            /\ heap'[j].status = "DELETE_COMPLETE"
       /\ \A k \in DOMAIN heap :
              (Len(heap'[k].events) > Len(heap[k].events)
               /\ heap'[k].events[Len(heap'[k].events)].resource_status
                      \notin CompleteStatuses) =>
                  last'.err # NoError]_vars

\* an update has just failed in a resolver on a stack that had been updated
\* before: UPDATE_IN_PROGRESS is its last event, UPDATE_COMPLETE its status
C18_Witness ==
    /\ last.op = "update" /\ last.err = ResolutionError
    /\ \E k \in DOMAIN heap :
           /\ Statuses(heap[k]) =
                  <<"CREATE_IN_PROGRESS", "CREATE_COMPLETE", "UPDATE_IN_PROGRESS",
                    "UPDATE_COMPLETE", "UPDATE_IN_PROGRESS">>
           /\ heap[k].status = "UPDATE_COMPLETE"

\* describe_stacks and get_stack give the same answer for the key
Agree(key) ==
    LET d == describe_stacks(Backend, key)
        g == get_stack(Backend, key)
    IN  IF d.err = NoError THEN d.result = <<g>>
        ELSE d.err = ValidationError(key) /\ g = NoneVal

\* C19 as stated: in every registry state and for every key, when
\* describe_stacks(key) returns [S] get_stack(key) returns S, and when
\* describe_stacks(key) raises ValidationError get_stack(key) returns nothing.
C19_DescribeAndGetAgree == \A key \in Keys : Agree(key)

\* C19 amended: the two agree on every key, except a key that is the id of a
\* deleted stack and the name of an active stack: for it describe_stacks
\* returns the first active stack of that name and get_stack the deleted
\* stack.
C19_DescribeAndGetAgreeUnlessShadowed ==
    \A key \in Keys :
        IF key \in deleted_stacks /\ FirstNamed(key) # 0
        THEN /\ describe_stacks(Backend, key) = Returned(<<stacks[FirstNamed(key)]>>)
             /\ get_stack(Backend, key) = key
             /\ ~ Agree(key)
        ELSE Agree(key)

\* both answers are the same active stack for a name two active stacks share,
\* the same deleted stack for its id, and nothing for that stack's name
C19_Witness ==
    /\ \E i, j \in 1..Len(stacks) :
           /\ i < j /\ heap[stacks[i]].name = heap[stacks[j]].name
           /\ describe_stacks(Backend, heap[stacks[j]].name) = Returned(<<stacks[i]>>)
           /\ get_stack(Backend, heap[stacks[j]].name) = stacks[i]
    /\ \E k \in deleted_stacks :
           /\ describe_stacks(Backend, k) = Returned(<<k>>)
           /\ get_stack(Backend, k) = k
           /\ describe_stacks(Backend, heap[k].name).err # NoError
           /\ get_stack(Backend, heap[k].name) = NoneVal

\* C11: an update that supplies no tags leaves the stack's tags as they were;
\* an update that supplies tags replaces them by exactly the supplied mapping
\* (the empty mapping clears them); role_arn is overwritten by the supplied
\* value in every update, also when that value is None.
C11_UpdateTagsAndRole ==
    [][(UpdateCall /\ last'.err = NoError) =>
          LET k == last'.result[1]
          IN  /\ heap'[k].tags = IF last'.tags = Absent
                                 THEN heap[k].tags
                                 ELSE CHOOSE m \in last'.tags : TRUE
              /\ heap'[k].role_arn = last'.role_arn]_vars

\* the second update of a stack supplied neither tags nor a role: the stack
\* still carries the tags the first update gave it and has no role
C11_Witness ==
    /\ last.op = "update" /\ last.err = NoError
    /\ last.tags = Absent /\ last.role_arn = NoneVal
    /\ LET k == last.result[1]
       IN  /\ Len(heap[k].events) = 6
           /\ heap[k].tags = TagsB
           /\ heap[k].role_arn = NoneVal

RECURSIVE Count(_, _)
\* how many entries of the sequence are the value
Count(seq, v) ==
    IF seq = <<>> THEN 0
    ELSE (IF Head(seq) = v THEN 1 ELSE 0) + Count(Tail(seq), v)

\* the stack has been through exactly one delete transition
OneDeletePair(k) ==
    /\ Count(Statuses(heap[k]), "DELETE_IN_PROGRESS") = 1
    /\ Count(Statuses(heap[k]), "DELETE_COMPLETE") = 1
    /\ Statuses(heap[k]) = <<"CREATE_IN_PROGRESS", "CREATE_COMPLETE",
                             "DELETE_IN_PROGRESS", "DELETE_COMPLETE">>

\* C20: with each delete_stack call running to completion before the next
\* begins, no call ends with an error, no stack is ever missing from a call
\* that passed the membership test, and a deleted stack has received exactly
\* one DELETE_IN_PROGRESS/DELETE_COMPLETE pair; under any schedule a call
\* fails only at stack.delete(), having passed the membership test and
\* popped None because another call removed the stack in between.
C20_SerialDeletesSucceed ==
    /\ [](sched = "serial" =>
             /\ \A t \in Threads :
                    /\ thread[t].err = NoError
                    /\ At(t, "delete") => Top(t).stack # NoneVal
                    /\ ~ Idle(t) => \A u \in Threads \ {t} : Idle(u)
             /\ \A k \in deleted_stacks : OneDeletePair(k)
             /\ \A k \in DOMAIN heap :
                    Count(Statuses(heap[k]), "DELETE_IN_PROGRESS") <= 1)
    /\ [][\A t \in Threads :
              (thread'[t].err # NoError /\ thread[t].err = NoError) =>
                  /\ sched = "interleaved"
                  /\ At(t, "delete")
                  /\ Top(t).stack = NoneVal
                  /\ Top(t).key \notin Range(stacks)
                  /\ thread'[t].err = AttributeError
                  /\ Idle(t)']_vars

\* under the interleaved schedule two calls were given the id of the same
\* active stack: one deleted it (it is in the deleted index with one pair of
\* events), the other passed the membership test, popped None and failed
C20_Witness ==
    /\ sched = "interleaved"
    /\ \E t, u \in Threads :
           /\ t # u
           /\ thread[t].key = thread[u].key
           /\ thread[t].key \in deleted_stacks
           /\ OneDeletePair(thread[t].key)
           /\ Idle(t) /\ thread[t].err = NoError
           /\ Idle(u) /\ thread[u].err = AttributeError

====
